---------------------------- MODULE Spec2Model ----------------------------
(***************************************************************************)
(* A model of clicalc: the lexer (src/src/lexer.rs), the recursive-descent *)
(* parser (src/src/parser.rs), the tree-walking evaluator                  *)
(* (src/src/evaluation.rs), the runner (src/src/runner.rs) and the         *)
(* read-parse-run loop (src/src/main.rs).                                  *)
(*                                                                         *)
(* Text is a sequence of characters, each a one-character string; NBSP     *)
(* stands for U+00A0, a whitespace character of two UTF-8 bytes.           *)
(*                                                                         *)
(* f64 is modelled by a binary fixed-point format of reduced width: a      *)
(* finite value is an integer number k of units of 2^-FracBits with        *)
(* |k| <= MaxK, and there are the three special values +inf, -inf and NaN. *)
(* Arithmetic rounds to the grid and overflows to an infinity, as IEEE 754 *)
(* arithmetic does at its own width. Signed zeros are not distinguished:   *)
(* no operation of the program tells a finite -0 from +0 other than by the *)
(* sign of an infinity, and the program only tests is_finite().            *)
(***************************************************************************)
EXTENDS Integers, Sequences, FiniteSets, TLC

(***************************************************************************)
(* Bounds of the model.                                                    *)
(***************************************************************************)
\* Number of fractional bits of the modelled float format.
FracBits == 2
\* Largest finite magnitude of the modelled float format (f64::MAX).
F64Max == 100000
\* Number of get_next/peek_next calls made on a lexer under test.
MaxCalls == 4
\* Length of the texts given to a lexer under test.
MaxTextLen == 4
\* Number of lines on the standard input of the read-parse-run loop.
MaxLines == 2
\* Number of binary operators in a chain of operands given to the parser.
MaxOps == 3
\* Number of pieces (keywords, operands, operators) in a line given to the parser.
MaxPieces == 4
\* Number of arguments in a function call given to the parser.
MaxArgs == 3

(***************************************************************************)
(* The number format.                                                      *)
(***************************************************************************)
RECURSIVE Pow2(_)
Pow2(n) == IF n = 0 THEN 1 ELSE 2 * Pow2(n - 1)

Scale == Pow2(FracBits)
MaxK == F64Max * Scale

Fin(k) == [c |-> "fin", k |-> k]
PosInf == [c |-> "inf", k |-> 1]
NegInf == [c |-> "inf", k |-> -1]
NaN == [c |-> "nan", k |-> 0]
Inf(sign) == IF sign < 0 THEN NegInf ELSE PosInf

Zero == Fin(0)
One == Fin(Scale)
\* The float nearest to the integer n.
Num(n) == Fin(n * Scale)

AbsInt(n) == IF n < 0 THEN -n ELSE n
SignInt(n) == IF n < 0 THEN -1 ELSE IF n > 0 THEN 1 ELSE 0

is_finite(x) == x.c = "fin"
is_nan(x) == x.c = "nan"
IsInf(x) == x.c = "inf"
\* Sign of a non-NaN value: -1, 0 or 1.
Sign(x) == SignInt(x.k)

\* Round an exact number of units to the format: overflow gives an infinity.
Round(k) == IF k > MaxK THEN PosInf ELSE IF k < -MaxK THEN NegInf ELSE Fin(k)

\* n / d rounded to the nearest integer, ties away from zero (d > 0).
DivRound(n, d) == SignInt(n) * ((2 * AbsInt(n) + d) \div (2 * d))

\* IEEE comparisons: every comparison with NaN is false.
Lt(a, b) ==
    /\ ~is_nan(a) /\ ~is_nan(b)
    /\ IF IsInf(a) THEN a.k < 0 /\ ~(IsInf(b) /\ b.k < 0)
       ELSE IF IsInf(b) THEN b.k > 0
       ELSE a.k < b.k

Neg(a) == IF is_nan(a) THEN NaN ELSE [c |-> a.c, k |-> -a.k]

Add(a, b) ==
    IF is_nan(a) \/ is_nan(b) THEN NaN
    ELSE IF IsInf(a) /\ IsInf(b) THEN (IF a.k = b.k THEN a ELSE NaN)
    ELSE IF IsInf(a) THEN a
    ELSE IF IsInf(b) THEN b
    ELSE Round(a.k + b.k)

Sub(a, b) == Add(a, Neg(b))

Mul(a, b) ==
    IF is_nan(a) \/ is_nan(b) THEN NaN
    ELSE IF IsInf(a) \/ IsInf(b)
         THEN (IF Sign(a) = 0 \/ Sign(b) = 0 THEN NaN ELSE Inf(Sign(a) * Sign(b)))
    ELSE IF a.k = 0 \/ b.k = 0 THEN Zero
    ELSE IF AbsInt(a.k) > ((MaxK + 1) * Scale) \div AbsInt(b.k)
         THEN Inf(Sign(a) * Sign(b))
    ELSE Round(DivRound(a.k * b.k, Scale))

Div(a, b) ==
    IF is_nan(a) \/ is_nan(b) THEN NaN
    ELSE IF IsInf(a) THEN (IF IsInf(b) THEN NaN
                           ELSE Inf(a.k * (IF b.k < 0 THEN -1 ELSE 1)))
    ELSE IF IsInf(b) THEN Zero
    ELSE IF b.k = 0 THEN (IF a.k = 0 THEN NaN ELSE Inf(a.k))
    ELSE Round(SignInt(b.k) * DivRound(a.k * Scale, AbsInt(b.k)))

\* Largest r in lo..hi with r * r <= n (bisection), for lo * lo <= n.
RECURSIVE ISqrtIn(_, _, _)
ISqrtIn(n, lo, hi) ==
    IF lo >= hi THEN lo
    ELSE LET mid == (lo + hi + 1) \div 2
         IN  IF mid * mid <= n THEN ISqrtIn(n, mid, hi) ELSE ISqrtIn(n, lo, mid - 1)

Abs(a) == IF is_nan(a) THEN NaN ELSE [c |-> a.c, k |-> AbsInt(a.k)]

Sqrt(a) ==
    IF is_nan(a) THEN NaN
    ELSE IF a.k < 0 THEN NaN
    ELSE IF IsInf(a) THEN PosInf
    ELSE Fin(ISqrtIn(a.k * Scale, 0, IF a.k * Scale < 46340 THEN a.k * Scale ELSE 46340))

\* True when the finite value a is a whole number.
IsInteger(a) == a.k % Scale = 0
IsOddInteger(a) == IsInteger(a) /\ (a.k \div Scale) % 2 # 0

\* a to the whole power n >= 0 by repeated squaring, rounding at every step.
RECURSIVE PowInt(_, _)
PowInt(a, n) ==
    IF n = 0 THEN One
    ELSE LET h == PowInt(a, n \div 2)
         IN  IF n % 2 = 0 THEN Mul(h, h) ELSE Mul(Mul(h, h), a)

\* The 2^bits-th root of a >= 0.
RECURSIVE Root(_, _)
Root(a, bits) == IF bits = 0 THEN a ELSE Root(Sqrt(a), bits - 1)

\* f64::powf, with the special cases of IEEE 754 pow. For finite a # 0 the
\* magnitude is |a| to the whole part of |y| by repeated multiplication, times
\* the 2^FracBits-th root of |a| to the fractional part of |y| in units.
Powf(a, y) ==
    IF y = Zero \/ a = One THEN One
    ELSE IF is_nan(a) \/ is_nan(y) THEN NaN
    ELSE IF IsInf(y)
         THEN (IF Abs(a) = One THEN One
               ELSE IF Lt(One, Abs(a)) = (y.k > 0) THEN PosInf ELSE Zero)
    ELSE IF IsInf(a)
         THEN (IF y.k < 0 THEN Zero
               ELSE IF a.k < 0 /\ IsOddInteger(y) THEN NegInf ELSE PosInf)
    ELSE IF a.k = 0 THEN (IF y.k < 0 THEN PosInf ELSE Zero)
    ELSE IF a.k < 0 /\ ~IsInteger(y) THEN NaN
    ELSE LET mag == Mul(PowInt(Abs(a), AbsInt(y.k) \div Scale),
                        PowInt(Root(Abs(a), FracBits), AbsInt(y.k) % Scale))
             signed == IF a.k < 0 /\ IsOddInteger(y) THEN Neg(mag) ELSE mag
         IN  IF y.k < 0 THEN Div(One, signed) ELSE signed

(***************************************************************************)
(* The library functions. Each has the special cases of its IEEE 754 / libm *)
(* counterpart (which arguments give NaN, which an infinity); the value at  *)
(* an ordinary argument is a coarse approximation on the grid, exact at the *)
(* landmark arguments (exp 0 = 1, ln 1 = 0, log 10 = 1, cos 0 = 1, ...).    *)
(***************************************************************************)
\* pi and e rounded to the grid.
PiK == DivRound(355 * Scale, 113)
HalfPiK == DivRound(355 * Scale, 226)
EK == DivRound(2718 * Scale, 1000)

\* e^a: e to the whole part by repeated multiplication, times the chord from
\* 1 to e at the fractional part.
Exp(a) ==
    IF is_nan(a) THEN NaN
    ELSE IF IsInf(a) THEN (IF a.k > 0 THEN PosInf ELSE Zero)
    ELSE LET m == AbsInt(a.k)
             whole == IF m \div Scale > MaxK THEN MaxK ELSE m \div Scale
             frac == Fin(Scale + DivRound((m % Scale) * (EK - Scale), Scale))
             mag == Mul(PowInt(Fin(EK), whole), frac)
         IN  IF a.k < 0 THEN Div(One, mag) ELSE mag

\* Logarithm to the base b (b > 1, in units) of k >= Scale units: the number
\* of whole divisions by b, then the chord from 0 to 1.
RECURSIVE LogUp(_, _)
LogUp(k, b) ==
    IF k >= b THEN Scale + LogUp(DivRound(k * Scale, b), b)
    ELSE DivRound((k - Scale) * Scale, b - Scale)

\* Logarithm to the base b of a; below one it is minus that of the reciprocal.
LogBase(a, b) ==
    IF is_nan(a) THEN NaN
    ELSE IF a.k < 0 THEN NaN
    ELSE IF IsInf(a) THEN PosInf
    ELSE IF a.k = 0 THEN NegInf
    ELSE IF a.k >= Scale THEN Fin(LogUp(a.k, b))
    ELSE Fin(-LogUp(DivRound(Scale * Scale, a.k), b))

Ln(a) == LogBase(a, EK)
Log10(a) == LogBase(a, 10 * Scale)

\* The triangle wave of period 2 pi through cos 0 = 1, cos pi = -1.
CosK(k) ==
    LET m == AbsInt(k) % (2 * PiK)
        d == IF m > PiK THEN 2 * PiK - m ELSE m
    IN  Scale - DivRound(2 * Scale * d, PiK)

Cos(a) == IF is_finite(a) THEN Fin(CosK(a.k)) ELSE NaN
Sin(a) == IF is_finite(a) THEN Fin(CosK(a.k - HalfPiK)) ELSE NaN

\* tan of a finite f64 is finite: no f64 is close enough to a pole.
Tan(a) ==
    IF ~is_finite(a) THEN NaN
    ELSE LET s == CosK(a.k - HalfPiK)
             c == CosK(a.k)
         IN  IF c = 0 THEN Fin(SignInt(s) * MaxK) ELSE
             LET q == Div(Fin(s), Fin(c))
             IN  IF is_finite(q) THEN q ELSE Fin(Sign(q) * MaxK)

Asin(a) ==
    IF ~is_finite(a) \/ AbsInt(a.k) > Scale THEN NaN
    ELSE Fin(DivRound(a.k * HalfPiK, Scale))

Acos(a) ==
    IF ~is_finite(a) \/ AbsInt(a.k) > Scale THEN NaN
    ELSE Fin(HalfPiK - DivRound(a.k * HalfPiK, Scale))

Atan(a) ==
    IF is_nan(a) THEN NaN
    ELSE IF IsInf(a) THEN Fin(a.k * HalfPiK)
    ELSE Fin(SignInt(a.k) * DivRound(AbsInt(a.k) * HalfPiK, AbsInt(a.k) + Scale))

\* f64::max and f64::min: a NaN operand is ignored.
Max(a, b) == IF is_nan(a) THEN b ELSE IF is_nan(b) THEN a ELSE IF Lt(a, b) THEN b ELSE a
Min(a, b) == IF is_nan(a) THEN b ELSE IF is_nan(b) THEN a ELSE IF Lt(b, a) THEN b ELSE a

(***************************************************************************)
(* Characters and text (src/src/lexer.rs works on a &str).                 *)
(***************************************************************************)
\* U+00A0 NO-BREAK SPACE: char::is_whitespace() holds, two bytes in UTF-8.
NBSP == "<U+00A0>"

is_ascii_digit(ch) == ch \in {"0", "1", "2", "3", "4", "5", "6", "7", "8", "9"}
is_ascii_lowercase(ch) ==
    ch \in {"a", "b", "c", "d", "e", "f", "g", "h", "i", "j", "k", "l", "m",
            "n", "o", "p", "q", "r", "s", "t", "u", "v", "w", "x", "y", "z"}
is_whitespace(ch) == ch \in {" ", "\t", "\n", NBSP}
\* Number of bytes of the UTF-8 encoding of ch.
len_utf8(ch) == IF ch = NBSP THEN 2 ELSE 1

DigitVal(ch) ==
    CASE ch = "0" -> 0 [] ch = "1" -> 1 [] ch = "2" -> 2 [] ch = "3" -> 3
      [] ch = "4" -> 4 [] ch = "5" -> 5 [] ch = "6" -> 6 [] ch = "7" -> 7
      [] ch = "8" -> 8 [] ch = "9" -> 9

\* &s[n..] for a prefix of n one-byte characters.
Drop(s, n) == SubSeq(s, n + 1, Len(s))
\* &s[..n] for a prefix of n one-byte characters.
Take(s, n) == SubSeq(s, 1, n)
\* s.chars().nth(n): "" stands for None.
Nth(s, n) == IF n < Len(s) THEN s[n + 1] ELSE ""

(***************************************************************************)
(* Errors (src/src/errors.rs). The description string is kept as its parts: *)
(* the stage prefix, the fixed wording and the formatted arguments.         *)
(***************************************************************************)
Error(stage, what, name, required, got) ==
    [stage |-> stage, what |-> what, name |-> name, required |-> required, got |-> got]
NoError == Error("", "", "", 0, 0)

(***************************************************************************)
(* Tokens (src/src/lexer.rs).                                              *)
(***************************************************************************)
Token(t, name, val) == [t |-> t, name |-> name, val |-> val]
Command(cmd) == Token("Command", cmd, Zero)
Literal(v) == Token("Literal", "", v)
Operator(op) == Token("Operator", op, Zero)
Variable(ch) == Token("Variable", ch, Zero)
Function(f) == Token("Function", f, Zero)
Eol == Token("Eol", "", Zero)

\* OperatorType by its spelling.
Plus == "+"
Minus == "-"
Times == "*"
DividedBy == "/"
Power == "^"
LeftParen == "("
RightParen == ")"
Comma == ","
Assignment == "="

\* Lexer::new
Lexer(s) == [text |-> s, current_token |-> Eol]

\* LexerResult
LexOk(tok) == [kind |-> "ok", tok |-> tok, err |-> NoError]
LexErr(what, name) == [kind |-> "err", tok |-> Eol, err |-> Error("Syntax error", what, name, 0, 0)]
Panic == [kind |-> "panic", tok |-> Eol, err |-> NoError]

\* utility::scan_digits
RECURSIVE scan_digits(_)
scan_digits(segment) ==
    IF segment # <<>> /\ is_ascii_digit(Head(segment))
    THEN 1 + scan_digits(Tail(segment))
    ELSE 0

\* Lexer::skip_whitespace: the text left, or a panic when &self.text[1..]
\* does not fall on a character boundary.
RECURSIVE skip_whitespace(_)
skip_whitespace(text) ==
    IF text # <<>> /\ is_whitespace(Head(text))
    THEN IF len_utf8(Head(text)) = 1
         THEN skip_whitespace(Tail(text))
         ELSE [panic |-> TRUE, text |-> text]
    ELSE [panic |-> FALSE, text |-> text]

(***************************************************************************)
(* str::parse::<f64> on the text of a literal: digits ['.' digits]         *)
(* ['e' digits]. The value is mantissa * 10^(exponent - fraction digits),  *)
(* rounded to the format; a value too large for the format is an infinity. *)
(***************************************************************************)
\* Cap of the intermediate integers: above every finite value in units.
IntCap == 100 * MaxK

\* The value of a digit string, saturating at IntCap.
RECURSIVE DigitsVal(_, _)
DigitsVal(ds, acc) ==
    IF ds = <<>> THEN acc
    ELSE LET n == 10 * acc + DigitVal(Head(ds))
         IN  DigitsVal(Tail(ds), IF n > IntCap THEN IntCap ELSE n)

\* Appends fraction digits to the mantissa while it stays below IntCap; the
\* digits beyond that are below the precision of the format.
RECURSIVE FracVal(_, _, _)
FracVal(ds, mant, used) ==
    IF ds = <<>> \/ 10 * mant + DigitVal(Head(ds)) > IntCap
    THEN [mant |-> mant, used |-> used]
    ELSE FracVal(Tail(ds), 10 * mant + DigitVal(Head(ds)), used + 1)

\* 10^n, saturating at IntCap.
RECURSIVE Pow10(_, _)
Pow10(n, acc) ==
    IF acc >= IntCap THEN IntCap
    ELSE IF n = 0 THEN acc
    ELSE Pow10(n - 1, 10 * acc)

\* The digits after the '.' that follows the first `whole` digits of lit.
FractionDigits(lit, whole) ==
    IF Nth(lit, whole) = "." THEN scan_digits(Drop(lit, whole + 1)) ELSE 0

\* The value of the mantissa m (digits read and fraction digits used) with
\* the decimal exponent exp10: m.mant * up / down in units of the format.
Decimal(m, exp10) ==
    LET up == Pow10(IF exp10 > m.used THEN exp10 - m.used ELSE 0, 1)
        down == Pow10(IF m.used > exp10 THEN m.used - exp10 ELSE 0, 1)
    IN  IF m.mant = 0 THEN Zero
        ELSE IF down = 1 /\ m.mant > F64Max \div up THEN PosInf
        ELSE Round(DivRound(m.mant * up * Scale, down))

\* The value of lit, which starts with `whole` digits and has frac digits
\* after the '.'.
ParseDecimal(lit, whole, frac) ==
    LET mantEnd == IF Nth(lit, whole) = "." THEN whole + 1 + frac ELSE whole
    IN  Decimal(FracVal(SubSeq(lit, whole + 2, whole + 1 + frac),
                        DigitsVal(Take(lit, whole), 0), 0),
                IF Nth(lit, mantEnd) = "e"
                THEN DigitsVal(Drop(lit, mantEnd + 1), 0) ELSE 0)

ParseF64(lit) ==
    ParseDecimal(lit, scan_digits(lit), FractionDigits(lit, scan_digits(lit)))

\* get_literal taking an 'e' as the exponent separator whatever follows it.
get_literal_any_e(text) ==
    LET digits == scan_digits(text)
        hasDot == Nth(text, digits) = "."
        decimals == FractionDigits(text, digits)
        afterFraction == IF hasDot THEN digits + 1 + decimals ELSE digits
        hasExponent == Nth(text, afterFraction) = "e"
        consumed == IF hasExponent
                    THEN afterFraction + 1 + scan_digits(Drop(text, afterFraction + 1))
                    ELSE afterFraction
    IN  IF hasDot /\ decimals = 0
        THEN [res |-> LexErr("No digits following '.'", ""), text |-> text]
        ELSE [res |-> LexOk(Literal(ParseF64(Take(text, consumed)))),
              text |-> Drop(text, consumed)]

\* get_literal returning the literal without moving past its text.
get_literal_in_place(text) ==
    LET digits == scan_digits(text)
        hasDot == Nth(text, digits) = "."
        decimals == FractionDigits(text, digits)
        afterFraction == IF hasDot THEN digits + 1 + decimals ELSE digits
        hasExponent == /\ Nth(text, afterFraction) = "e"
                       /\ is_ascii_digit(Nth(text, afterFraction + 1))
        consumed == IF hasExponent
                    THEN afterFraction + 1 + scan_digits(Drop(text, afterFraction + 1))
                    ELSE afterFraction
    IN  IF hasDot /\ decimals = 0
        THEN [res |-> LexErr("No digits following '.'", ""), text |-> text]
        ELSE [res |-> LexOk(Literal(ParseF64(Take(text, consumed)))),
              text |-> text]

\* Lexer::get_literal
get_literal(text) ==
    LET digits == scan_digits(text)
        hasDot == Nth(text, digits) = "."
        decimals == FractionDigits(text, digits)
        afterFraction == IF hasDot THEN digits + 1 + decimals ELSE digits
        hasExponent == /\ Nth(text, afterFraction) = "e"
                       /\ is_ascii_digit(Nth(text, afterFraction + 1))
        consumed == IF hasExponent
                    THEN afterFraction + 1 + scan_digits(Drop(text, afterFraction + 1))
                    ELSE afterFraction
    IN  IF hasDot /\ decimals = 0
        THEN [res |-> LexErr("No digits following '.'", ""), text |-> text]
        ELSE [res |-> LexOk(Literal(ParseF64(Take(text, consumed)))),
              text |-> Drop(text, consumed)]

\* Lexer::get_operator (called with an operator symbol at the head).
get_operator(text) ==
    IF text = <<>> THEN [res |-> LexOk(Eol), text |-> text]
    ELSE IF Head(text) \in {Plus, Minus, Times, DividedBy, Power,
                            LeftParen, RightParen, Comma, Assignment}
         THEN [res |-> LexOk(Operator(Head(text))), text |-> Drop(text, 1)]
         ELSE [res |-> LexErr("Unexpected character", ""), text |-> text]

cmd_spellings ==
    << <<"h", "e", "l", "p">>, <<"q", "u", "i", "t">> >>

func_spellings ==
    << <<"a", "b", "s">>, <<"a", "r", "c", "c", "o", "s">>,
       <<"a", "r", "c", "s", "i", "n">>, <<"a", "r", "c", "t", "a", "n">>,
       <<"c", "o", "s">>, <<"e", "x", "p">>, <<"l", "n">>, <<"l", "o", "g">>,
       <<"m", "a", "x">>, <<"m", "i", "n">>, <<"p", "o", "w">>,
       <<"s", "i", "n">>, <<"s", "q", "r", "t">>, <<"t", "a", "n">> >>

\* CommandType and FunctionType by the spelling of the keyword.
cmd_names == <<"help", "quit">>
func_names == <<"abs", "arccos", "arcsin", "arctan", "cos", "exp", "ln", "log",
                "max", "min", "pow", "sin", "sqrt", "tan">>

\* The first index from i on whose spelling text starts with, or 0.
RECURSIVE first_match(_, _, _)
first_match(text, spellings, i) ==
    IF i > Len(spellings) THEN 0
    ELSE IF /\ Len(text) >= Len(spellings[i])
               /\ Take(text, Len(spellings[i])) = spellings[i] THEN i
    ELSE first_match(text, spellings, i + 1)

\* Lexer::get_name (called with a lowercase letter at the head).
get_name(text) ==
    LET c == first_match(text, cmd_spellings, 1)
        f == first_match(text, func_spellings, 1)
    IN  IF c # 0
        THEN [res |-> LexOk(Command(cmd_names[c])), text |-> Drop(text, Len(cmd_spellings[c]))]
        ELSE IF f # 0
        THEN [res |-> LexOk(Function(func_names[f])), text |-> Drop(text, Len(func_spellings[f]))]
        ELSE [res |-> LexOk(Variable(Head(text))), text |-> Drop(text, 1)]

\* The end of get_next: `self.current_token = ...?` on the token scanned from
\* text, then Ok(self.current_token); a failed scan leaves the token as it was.
set_current_token(lx, text, scan) ==
    IF scan.res.kind = "ok"
    THEN [res |-> scan.res, lx |-> [text |-> scan.text, current_token |-> scan.res.tok]]
    ELSE [res |-> scan.res, lx |-> [text |-> text, current_token |-> lx.current_token]]

\* Lexer::get_next: the result and the lexer afterwards.
get_next(lx) ==
    LET skipped == skip_whitespace(lx.text)
        text == skipped.text
        first == Head(text)
    IN  IF skipped.panic THEN [res |-> Panic, lx |-> lx]
        ELSE IF text = <<>>
             THEN [res |-> LexOk(Eol), lx |-> [text |-> text, current_token |-> Eol]]
        ELSE set_current_token(lx, text,
                 IF is_ascii_digit(first) \/ first = "." THEN get_literal(text)
                 ELSE IF first \in {"+", "-", "*", "/", "^", "(", ")", ",", "="}
                      THEN get_operator(text)
                 ELSE IF is_ascii_lowercase(first) THEN get_name(text)
                 ELSE [res |-> LexErr("unrecognized character", first), text |-> text])

\* peek_next restoring the text but not the current token.
peek_next_keep_token(lx) ==
    LET saved_text == lx.text
        next == get_next(lx)
    IN  IF next.res.kind = "panic" THEN next
        ELSE [res |-> next.res,
              lx |-> [text |-> saved_text, current_token |-> next.lx.current_token]]

\* Lexer::peek_next: get_next with the text and the current token restored.
peek_next(lx) ==
    LET saved_text == lx.text
        saved_current_token == lx.current_token
        next == get_next(lx)
    IN  IF next.res.kind = "panic" THEN next
        ELSE [res |-> next.res,
              lx |-> [text |-> saved_text, current_token |-> saved_current_token]]

(***************************************************************************)
(* Syntax trees and programs (src/src/parser.rs).                          *)
(***************************************************************************)
ParenExpr(e) == [node |-> "Paren", expr |-> e]
UnaryExpr(op, e) == [node |-> "Unary", op |-> op, expr |-> e]
BinaryExpr(op, l, r) == [node |-> "Binary", op |-> op, left |-> l, right |-> r]
FunctionExpr(f, args) == [node |-> "Function", func |-> f, args |-> args]
VariableExpr(ch) == [node |-> "Variable", var |-> ch]
LiteralExpr(v) == [node |-> "Literal", val |-> v]
\* Stands where a result carries no tree.
NoTree == [node |-> "None"]

CommandStmt(cmd) == [prog |-> "Command", command |-> cmd]
AssignmentStmt(var, expr) ==
    [prog |-> "Assignment", variable |-> var, expression |-> expr]
Expr(expr) == [prog |-> "Expr", expression |-> expr]

\* ParseResult<T>, together with the parser's lexer afterwards.
ParseOk(val, lx) == [kind |-> "ok", val |-> val, err |-> NoError, lx |-> lx]
\* utility::error of the parser
ParseErr(what, lx) ==
    [kind |-> "err", val |-> NoTree, err |-> Error("Parse error", what, "", 0, 0), lx |-> lx]
\* The `?` on a failed (or panicked) lexer call.
LexFail(g) == [kind |-> g.res.kind, val |-> NoTree, err |-> g.res.err, lx |-> g.lx]
ParsePanic(lx) == [kind |-> "panic", val |-> NoTree, err |-> NoError, lx |-> lx]

(***************************************************************************)
(* The parser (src/src/parser.rs). Every method works on `self`, which is  *)
(* modelled as p: the lexer (p.lx) together with the result of the step    *)
(* before (p.kind, p.val, p.err). Every call in the source is followed by  *)
(* `?`, so a method applied to a failed p gives that failure back, and a   *)
(* sequence of calls is written as their composition.                      *)
(***************************************************************************)
\* The parser holding val after the lexer call g, or the failure of g.
FromLexer(val, g) == IF g.res.kind # "ok" THEN LexFail(g) ELSE ParseOk(val, g.lx)

\* self.lexer.get_next()?
lexer_get_next(p) == IF p.kind # "ok" THEN p ELSE FromLexer(p.val, get_next(p.lx))

\* Ok(val) at the end of a method whose steps gave p.
Returns(val, p) == IF p.kind # "ok" THEN p ELSE ParseOk(val, p.lx)

\* Ok(Expression::BinaryExpr(op, left, rhs)) for the operand rhs just parsed.
OkBinary(op, left, rhs) ==
    IF rhs.kind # "ok" THEN rhs ELSE ParseOk(BinaryExpr(op, left, rhs.val), rhs.lx)

\* Ok(Expression::UnaryExpr(op, expr)) for the operand expr just parsed.
OkUnary(op, expr) ==
    IF expr.kind # "ok" THEN expr ELSE ParseOk(UnaryExpr(op, expr.val), expr.lx)

\* Ok(Expression::ParenExpr(expr)) once the closing parenthesis is consumed.
OkParen(expr) ==
    IF expr.kind # "ok" THEN expr ELSE ParseOk(ParenExpr(expr.val), expr.lx)

\* Ok(Expression::FunctionExpr(func, args)) once the closing parenthesis is consumed.
OkFunction(func, args) ==
    IF args.kind # "ok" THEN args ELSE ParseOk(FunctionExpr(func, args.val), args.lx)

\* Ok(Program::Stmt(AssignmentStmt(lhs, rhs))) once the end of input is met.
OkAssignment(lhs, rhs) ==
    IF rhs.kind # "ok" THEN rhs ELSE ParseOk(AssignmentStmt(lhs, rhs.val), rhs.lx)

\* Ok(Program::Expr(expr)) once the end of input is met.
OkExpr(expr) ==
    IF expr.kind # "ok" THEN expr ELSE ParseOk(Expr(expr.val), expr.lx)

\* Parser::require_operator. Every caller drops the token returned, so the
\* value parsed before is carried along in its place.
require_operator(p, t) ==
    LET token == p.lx.current_token
    IN  IF p.kind # "ok" THEN p
        ELSE IF token.t = "Operator" /\ token.name = t THEN lexer_get_next(p)
        ELSE ParseErr("", p.lx)

\* require_end_of_input accepting whatever token is current.
require_end_of_input_lax(p) == p

\* Parser::require_end_of_input. Every caller drops the token returned, so
\* the value parsed before is carried along in its place.
require_end_of_input(p) ==
    LET token == p.lx.current_token
    IN  IF p.kind # "ok" THEN p
        ELSE IF token.t = "Eol" THEN p
        ELSE ParseErr("extra characters at the end of line.", p.lx)

RECURSIVE parse_additive_expression(_), additive_loop(_),
          parse_multiplicative_expression(_), multiplicative_loop(_),
          parse_power_expression(_), power_loop(_),
          parse_term(_), parse_expression_list(_),
          expression_list_loop(_, _), expression_list_push(_, _)

\* Parser::parse_expression
parse_expression(p) == parse_additive_expression(p)

\* Parser::parse_additive_expression
parse_additive_expression(p) == additive_loop(parse_multiplicative_expression(p))

\* The loop of parse_additive_expression; p.val is `result`.
additive_loop(p) ==
    LET tok == p.lx.current_token
    IN  IF p.kind # "ok" THEN p
        ELSE IF tok.t = "Operator" /\ tok.name \in {Plus, Minus}
        THEN additive_loop(
                 OkBinary(tok.name, p.val,
                          parse_multiplicative_expression(lexer_get_next(p))))
        ELSE p

\* Parser::parse_multiplicative_expression
parse_multiplicative_expression(p) == multiplicative_loop(parse_power_expression(p))

\* The loop of parse_multiplicative_expression with a parenthesised term
\* multiplied into the right operand of the product or quotient built so far.
multiplicative_loop_tight(p) ==
    LET tok == p.lx.current_token
    IN  IF p.kind # "ok" THEN p
        ELSE IF tok.t = "Operator" /\ tok.name \in {Times, DividedBy}
        THEN multiplicative_loop(
                 OkBinary(tok.name, p.val, parse_power_expression(lexer_get_next(p))))
        ELSE IF tok.t = "Operator" /\ tok.name = LeftParen
        THEN IF p.val.node = "Binary" /\ p.val.op \in {Times, DividedBy}
             THEN multiplicative_loop(
                      OkBinary(p.val.op, p.val.left,
                               OkBinary(Times, p.val.right, parse_term(p))))
             ELSE multiplicative_loop(OkBinary(Times, p.val, parse_term(p)))
        ELSE IF tok.t \in {"Variable", "Function"}
        THEN multiplicative_loop(OkBinary(Times, p.val, parse_power_expression(p)))
        ELSE p

\* The loop of parse_multiplicative_expression with a whole power expression
\* as the right operand after a left parenthesis too.
multiplicative_loop_paren_power(p) ==
    LET tok == p.lx.current_token
    IN  IF p.kind # "ok" THEN p
        ELSE IF tok.t = "Operator" /\ tok.name \in {Times, DividedBy}
        THEN multiplicative_loop(
                 OkBinary(tok.name, p.val, parse_power_expression(lexer_get_next(p))))
        ELSE IF tok.t = "Operator" /\ tok.name = LeftParen
        THEN multiplicative_loop(OkBinary(Times, p.val, parse_power_expression(p)))
        ELSE IF tok.t \in {"Variable", "Function"}
        THEN multiplicative_loop(OkBinary(Times, p.val, parse_power_expression(p)))
        ELSE p

\* The loop of parse_multiplicative_expression; p.val is `result`.
multiplicative_loop(p) ==
    LET tok == p.lx.current_token
    IN  IF p.kind # "ok" THEN p
        ELSE IF tok.t = "Operator" /\ tok.name \in {Times, DividedBy}
        THEN multiplicative_loop(
                 OkBinary(tok.name, p.val, parse_power_expression(lexer_get_next(p))))
        ELSE IF tok.t = "Operator" /\ tok.name = LeftParen
        THEN multiplicative_loop(OkBinary(Times, p.val, parse_term(p)))
        ELSE IF tok.t \in {"Variable", "Function"}
        THEN multiplicative_loop(OkBinary(Times, p.val, parse_power_expression(p)))
        ELSE p

\* Parser::parse_power_expression
parse_power_expression(p) == power_loop(parse_term(p))

\* The loop of parse_power_expression grouping '^' to the right.
power_loop_right(p) ==
    LET tok == p.lx.current_token
    IN  IF p.kind # "ok" THEN p
        ELSE IF tok.t = "Operator" /\ tok.name = Power
        THEN OkBinary(Power, p.val, parse_power_expression(lexer_get_next(p)))
        ELSE p

\* The loop of parse_power_expression; p.val is `result`.
power_loop(p) ==
    LET tok == p.lx.current_token
    IN  IF p.kind # "ok" THEN p
        ELSE IF tok.t = "Operator" /\ tok.name = Power
        THEN power_loop(OkBinary(Power, p.val, parse_term(lexer_get_next(p))))
        ELSE p

\* parse_term taking any operator other than a parenthesis for a sign.
parse_term_any_operator(p) ==
    LET tok == p.lx.current_token
    IN  IF p.kind # "ok" THEN p
        ELSE CASE tok.t = "Command" -> ParseErr("unexpected command TODO", p.lx)
               [] tok.t = "Literal" ->
                     Returns(LiteralExpr(tok.val), lexer_get_next(p))
               [] tok.t = "Operator" ->
                     IF tok.name = LeftParen
                     THEN OkParen(require_operator(parse_expression(lexer_get_next(p)),
                                                   RightParen))
                     ELSE IF tok.name # RightParen
                     THEN OkUnary(tok.name, parse_term(lexer_get_next(p)))
                     ELSE ParseErr("", p.lx)
               [] tok.t = "Variable" ->
                     Returns(VariableExpr(tok.name), lexer_get_next(p))
               [] tok.t = "Function" ->
                     OkFunction(tok.name,
                         require_operator(
                             parse_expression_list(
                                 require_operator(lexer_get_next(p), LeftParen)),
                             RightParen))
               [] tok.t = "Eol" -> ParseErr("unexpected end of input.", p.lx)

\* parse_term with a sign applied to the whole power expression after it.
parse_term_loose_sign(p) ==
    LET tok == p.lx.current_token
    IN  IF p.kind # "ok" THEN p
        ELSE CASE tok.t = "Command" -> ParseErr("unexpected command TODO", p.lx)
               [] tok.t = "Literal" ->
                     Returns(LiteralExpr(tok.val), lexer_get_next(p))
               [] tok.t = "Operator" ->
                     IF tok.name = LeftParen
                     THEN OkParen(require_operator(parse_expression(lexer_get_next(p)),
                                                   RightParen))
                     ELSE IF tok.name \in {Plus, Minus}
                     THEN OkUnary(tok.name, parse_power_expression(lexer_get_next(p)))
                     ELSE ParseErr("", p.lx)
               [] tok.t = "Variable" ->
                     Returns(VariableExpr(tok.name), lexer_get_next(p))
               [] tok.t = "Function" ->
                     OkFunction(tok.name,
                         require_operator(
                             parse_expression_list(
                                 require_operator(lexer_get_next(p), LeftParen)),
                             RightParen))
               [] tok.t = "Eol" -> ParseErr("unexpected end of input.", p.lx)

\* Parser::parse_term
parse_term(p) ==
    LET tok == p.lx.current_token
    IN  IF p.kind # "ok" THEN p
        ELSE CASE tok.t = "Command" -> ParseErr("unexpected command TODO", p.lx)
               [] tok.t = "Literal" ->
                     Returns(LiteralExpr(tok.val), lexer_get_next(p))
               [] tok.t = "Operator" ->
                     IF tok.name = LeftParen
                     THEN OkParen(require_operator(parse_expression(lexer_get_next(p)),
                                                   RightParen))
                     ELSE IF tok.name \in {Plus, Minus}
                     THEN OkUnary(tok.name, parse_term(lexer_get_next(p)))
                     ELSE ParseErr("", p.lx)
               [] tok.t = "Variable" ->
                     Returns(VariableExpr(tok.name), lexer_get_next(p))
               [] tok.t = "Function" ->
                     OkFunction(tok.name,
                         require_operator(
                             parse_expression_list(
                                 require_operator(lexer_get_next(p), LeftParen)),
                             RightParen))
               [] tok.t = "Eol" -> ParseErr("unexpected end of input.", p.lx)

\* Parser::parse_expression_list
parse_expression_list(p) ==
    LET tok == p.lx.current_token
        done == tok.t = "Operator" /\ tok.name = RightParen
    IN  IF p.kind # "ok" THEN p
        ELSE IF done THEN ParseOk(<<>>, p.lx)
        ELSE expression_list_loop(<<>>, p)

\* One iteration of the while loop of parse_expression_list.
expression_list_loop(args, p) == expression_list_push(args, parse_expression(p))

\* The rest of the iteration once the argument arg is parsed.
expression_list_push(args, arg) ==
    LET tok == arg.lx.current_token
        pushed == Append(args, arg.val)
    IN  IF arg.kind # "ok" THEN arg
        ELSE IF tok.t = "Operator" /\ tok.name = RightParen
        THEN ParseOk(pushed, arg.lx)
        ELSE IF tok.t = "Operator" /\ tok.name = Comma
        THEN expression_list_loop(pushed, lexer_get_next(arg))
        ELSE ParseErr("either ')' or ',' must follow argument.", arg.lx)

\* Parser::parse_command_program
parse_command_program(p) ==
    LET tok == p.lx.current_token
    IN  IF p.kind # "ok" THEN p
        ELSE IF tok.t = "Command"
        THEN Returns(CommandStmt(tok.name), require_end_of_input(lexer_get_next(p)))
        ELSE ParsePanic(p.lx)

\* The match on `variable` in parse_assignment_program, after the get_next
\* that moves to the assignment operator.
match_variable(variable, p) ==
    IF p.kind # "ok" THEN p
    ELSE IF variable.t # "Variable" THEN ParsePanic(p.lx)
    ELSE p

\* Parser::parse_assignment_program
parse_assignment_program(p) ==
    LET variable == p.lx.current_token
    IN  IF p.kind # "ok" THEN p
        ELSE OkAssignment(VariableExpr(variable.name),
                 require_end_of_input(
                     parse_expression(
                         lexer_get_next(match_variable(variable, lexer_get_next(p))))))

\* Parser::parse_expression_program
parse_expression_program(p) == OkExpr(require_end_of_input(parse_expression(p)))

\* parse_program taking every line that starts with a variable for an assignment.
parse_program_no_peek(p) ==
    LET tok == p.lx.current_token
    IN  IF p.kind # "ok" THEN p
        ELSE IF tok.t = "Command" THEN parse_command_program(p)
        ELSE IF tok.t = "Variable" THEN parse_assignment_program(p)
        ELSE parse_expression_program(p)

\* The Token::Variable arm of parse_program, peeked being what
\* self.lexer.peek_next() gave.
parse_variable_program(p, peeked) ==
    IF peeked.res.kind # "ok" THEN LexFail(peeked)
    ELSE IF peeked.res.tok.t = "Operator" /\ peeked.res.tok.name = Assignment
    THEN parse_assignment_program(p)
    ELSE parse_expression_program(p)

\* Parser::parse_program
parse_program(p) ==
    LET tok == p.lx.current_token
    IN  IF p.kind # "ok" THEN p
        ELSE IF tok.t = "Command" THEN parse_command_program(p)
        ELSE IF tok.t = "Variable" THEN parse_variable_program(p, peek_next(p.lx))
        ELSE parse_expression_program(p)

\* Parser::new(text) and Parser::parse
parse(text) == parse_program(lexer_get_next(ParseOk(NoTree, Lexer(text))))

(***************************************************************************)
(* Evaluation (src/src/evaluation.rs). The environment is a function from   *)
(* the bound letters to their values (HashMap<char, f64>).                 *)
(***************************************************************************)
\* EvaluationResult
EvalOk(v) == [kind |-> "ok", val |-> v, err |-> NoError]
EvalErr(what, name, required, got) ==
    [kind |-> "err", val |-> Zero, err |-> Error("evaluation error", what, name, required, got)]
EvalPanic == [kind |-> "panic", val |-> Zero, err |-> NoError]

\* utility::verify_result
verify_result(result, on_failure) ==
    IF is_finite(result) THEN EvalOk(result) ELSE EvalErr(on_failure, "", 0, 0)

\* require_fixed_args accepting more arguments than required.
require_fixed_args_at_least(args_size, required_size, func_name) ==
    IF args_size >= required_size THEN EvalOk(Zero)
    ELSE IF required_size = 1
         THEN EvalErr("single argument required", func_name, required_size, args_size)
         ELSE EvalErr("arguments required", func_name, required_size, args_size)

\* utility::require_fixed_args
require_fixed_args(args_size, required_size, func_name) ==
    IF args_size = required_size THEN EvalOk(Zero)
    ELSE IF required_size = 1
         THEN EvalErr("single argument required", func_name, required_size, args_size)
         ELSE EvalErr("arguments required", func_name, required_size, args_size)

\* utility::require_min_args
require_min_args(args_size, required_min_size, func_name) ==
    IF args_size >= required_min_size THEN EvalOk(Zero)
    ELSE EvalErr("at least arguments required", func_name, required_min_size, args_size)

\* The loop of utility::compute_min from index i on.
RECURSIVE min_from(_, _, _)
min_from(args, i, result) ==
    IF i > Len(args) THEN result ELSE min_from(args, i + 1, Min(result, args[i]))

\* utility::compute_min
compute_min(args) == min_from(args, 2, args[1])

\* The loop of utility::compute_max from index i on.
RECURSIVE max_from(_, _, _)
max_from(args, i, result) ==
    IF i > Len(args) THEN result ELSE max_from(args, i + 1, Max(result, args[i]))

\* utility::compute_max
compute_max(args) == max_from(args, 2, args[1])

\* The match of FunctionExpression::evaluate on the evaluated arguments.
apply_function(func, args) ==
    LET n == Len(args)
        fixed1(name) == require_fixed_args(n, 1, name)
    IN  CASE func = "abs" ->
                IF fixed1("abs").kind # "ok" THEN fixed1("abs") ELSE EvalOk(Abs(args[1]))
          [] func = "arccos" ->
                IF fixed1("arccos").kind # "ok" THEN fixed1("arccos")
                ELSE verify_result(Acos(args[1]), "arccos: argument must be between -1..1")
          [] func = "arcsin" ->
                IF fixed1("arcsin").kind # "ok" THEN fixed1("arcsin")
                ELSE verify_result(Asin(args[1]), "arcsin: argument must be between -1..1")
          [] func = "arctan" ->
                IF fixed1("arctan").kind # "ok" THEN fixed1("arctan") ELSE EvalOk(Atan(args[1]))
          [] func = "cos" ->
                IF fixed1("cos").kind # "ok" THEN fixed1("cos") ELSE EvalOk(Cos(args[1]))
          [] func = "exp" ->
                IF fixed1("exp").kind # "ok" THEN fixed1("exp")
                ELSE verify_result(Exp(args[1]), "exp: overflow")
          [] func = "ln" ->
                IF fixed1("ln").kind # "ok" THEN fixed1("ln")
                ELSE verify_result(Ln(args[1]), "ln: argument must be greater than zero")
          [] func = "log" ->
                IF fixed1("log").kind # "ok" THEN fixed1("log")
                ELSE verify_result(Log10(args[1]), "log: argument must be greater than zero")
          [] func = "max" ->
                IF require_min_args(n, 2, "max").kind # "ok" THEN require_min_args(n, 2, "max")
                ELSE EvalOk(compute_max(args))
          [] func = "min" ->
                IF require_min_args(n, 2, "min").kind # "ok" THEN require_min_args(n, 2, "min")
                ELSE EvalOk(compute_min(args))
          [] func = "pow" ->
                IF require_fixed_args(n, 2, "pow").kind # "ok" THEN require_fixed_args(n, 2, "pow")
                ELSE verify_result(Powf(args[1], args[2]), "pow: the result is undefined")
          [] func = "sin" ->
                IF fixed1("sin").kind # "ok" THEN fixed1("sin") ELSE EvalOk(Sin(args[1]))
          [] func = "sqrt" ->
                IF fixed1("sqrt").kind # "ok" THEN fixed1("sqrt")
                ELSE verify_result(Sqrt(args[1]), "sqrt: argument must be nonnegative")
          [] func = "tan" ->
                IF fixed1("tan").kind # "ok" THEN fixed1("tan")
                ELSE verify_result(Tan(args[1]), "tan: result is undefined")

\* The match of BinaryExpression::evaluate on the evaluated operands.
apply_binary(op, left_result, right_result) ==
    CASE op = Plus ->
            verify_result(Add(left_result, right_result), "arithmetic overflow during addition")
      [] op = Minus ->
            verify_result(Sub(left_result, right_result), "arithmetic overflow during subtraction")
      [] op = Times ->
            verify_result(Mul(left_result, right_result), "arithmetic overflow during multiplication")
      [] op = DividedBy ->
            verify_result(Div(left_result, right_result), "arithmetic overflow during division")
      [] op = Power ->
            verify_result(Powf(left_result, right_result), "result of exponentiation is undefined")
      [] OTHER -> EvalPanic

\* The match of UnaryExpression::evaluate on the evaluated operand.
apply_unary(op, inner_result) ==
    CASE op = Plus -> EvalOk(inner_result)
      [] op = Minus -> EvalOk(Neg(inner_result))
      [] OTHER -> EvalPanic

RECURSIVE evaluate(_, _), evaluate_args(_, _, _, _)

\* evaluate with the right operand of a binary node evaluated before the left.
evaluate_right_first(e, variables) ==
    CASE e.node = "Paren" -> evaluate(e.expr, variables)
      [] e.node = "Unary" ->
            LET inner_result == evaluate(e.expr, variables)
            IN  IF inner_result.kind # "ok" THEN inner_result
                ELSE apply_unary(e.op, inner_result.val)
      [] e.node = "Binary" ->
            LET right_result == evaluate(e.right, variables)
            IN  IF right_result.kind # "ok" THEN right_result
                ELSE LET left_result == evaluate(e.left, variables)
                     IN  IF left_result.kind # "ok" THEN left_result
                         ELSE apply_binary(e.op, left_result.val, right_result.val)
      [] e.node = "Function" ->
            LET args == evaluate_args(e.args, 1, <<>>, variables)
            IN  IF args.kind # "ok" THEN [kind |-> args.kind, val |-> Zero, err |-> args.err]
                ELSE apply_function(e.func, args.val)
      [] e.node = "Variable" ->
            IF e.var \in DOMAIN variables THEN EvalOk(variables[e.var])
            ELSE EvalErr("variable is undefined", e.var, 0, 0)
      [] e.node = "Literal" -> EvalOk(e.val)

\* Evaluable::evaluate for Expression and its six variants.
evaluate(e, variables) ==
    CASE e.node = "Paren" -> evaluate(e.expr, variables)
      [] e.node = "Unary" ->
            LET inner_result == evaluate(e.expr, variables)
            IN  IF inner_result.kind # "ok" THEN inner_result
                ELSE apply_unary(e.op, inner_result.val)
      [] e.node = "Binary" ->
            LET left_result == evaluate(e.left, variables)
            IN  IF left_result.kind # "ok" THEN left_result
                ELSE LET right_result == evaluate(e.right, variables)
                     IN  IF right_result.kind # "ok" THEN right_result
                         ELSE apply_binary(e.op, left_result.val, right_result.val)
      [] e.node = "Function" ->
            LET args == evaluate_args(e.args, 1, <<>>, variables)
            IN  IF args.kind # "ok" THEN [kind |-> args.kind, val |-> Zero, err |-> args.err]
                ELSE apply_function(e.func, args.val)
      [] e.node = "Variable" ->
            IF e.var \in DOMAIN variables THEN EvalOk(variables[e.var])
            ELSE EvalErr("variable is undefined", e.var, 0, 0)
      [] e.node = "Literal" -> EvalOk(e.val)

\* The argument loop of FunctionExpression::evaluate from index i on.
evaluate_args(exprs, i, args, variables) ==
    IF i > Len(exprs) THEN [kind |-> "ok", val |-> args, err |-> NoError]
    ELSE LET arg == evaluate(exprs[i], variables)
         IN  IF arg.kind # "ok" THEN [kind |-> arg.kind, val |-> <<>>, err |-> arg.err]
             ELSE evaluate_args(exprs, i + 1, Append(args, arg.val), variables)

(***************************************************************************)
(* The runner (src/src/runner.rs). Each run_* gives the environment        *)
(* afterwards, what was printed and the value returned to the loop.        *)
(***************************************************************************)
Printed(kind, var, val, err) == [kind |-> kind, var |-> var, val |-> val, err |-> err]
NothingPrinted == Printed("none", "", Zero, NoError)

\* HashMap::insert
insert(variables, var, result) ==
    [ch \in DOMAIN variables \cup {var} |-> IF ch = var THEN result ELSE variables[ch]]

RunResult(variables, printed, ret, panic) ==
    [variables |-> variables, printed |-> printed, ret |-> ret, panic |-> panic]

\* Runner::run_command
run_command(statement, variables) ==
    IF statement.command = "help"
    THEN RunResult(variables, Printed("help", "", Zero, NoError), TRUE, FALSE)
    ELSE RunResult(variables, NothingPrinted, FALSE, FALSE)

\* The match of run_assignment on the result r of evaluating the right side.
assignment_evaluated(var, variables, r) ==
    CASE r.kind = "ok" ->
            RunResult(insert(variables, var, r.val),
                      Printed("assignment", var, r.val, NoError), TRUE, FALSE)
      [] r.kind = "err" ->
            RunResult(variables, Printed("error", "", Zero, r.err), TRUE, FALSE)
      [] r.kind = "panic" -> RunResult(variables, NothingPrinted, TRUE, TRUE)

\* Runner::run_assignment
run_assignment(assignment, variables) ==
    assignment_evaluated(assignment.variable.var, variables,
                         evaluate(assignment.expression, variables))

\* The match of run_expression on the result r of evaluating the expression.
expression_evaluated(variables, r) ==
    CASE r.kind = "ok" ->
            RunResult(variables, Printed("value", "", r.val, NoError), TRUE, FALSE)
      [] r.kind = "err" ->
            RunResult(variables, Printed("error", "", Zero, r.err), TRUE, FALSE)
      [] r.kind = "panic" -> RunResult(variables, NothingPrinted, TRUE, TRUE)

\* Runner::run_expression
run_expression(expression, variables) ==
    expression_evaluated(variables, evaluate(expression, variables))

(***************************************************************************)
(* State.                                                                  *)
(***************************************************************************)
VARIABLES
    stdin,       \* the lines not yet read from the standard input
    pc,          \* where main is: "read", "parse", "run", "exited", "panicked";
                 \* "lexing" while a lexer is exercised on its own
    line,        \* main: the String read by read_line
    lexer,       \* Lexer: text and current_token (the parser's lexer, or the one exercised)
    program,     \* main: the result of parser.parse() for line
    keep_going,  \* main: keep_going
    variables,   \* Runner::variables
    printed,     \* what the last println! of the loop wrote
    input,       \* the text the exercised lexer was created on
    calls        \* the calls made on the exercised lexer: operation, result, lexer before

vars == <<stdin, pc, line, lexer, program, keep_going, variables, printed, input, calls>>

NoProgram == [kind |-> "none", val |-> NoTree, err |-> NoError]
NoVariables == [ch \in {} |-> Zero]

(***************************************************************************)
(* The read-parse-run loop (src/src/main.rs).                              *)
(***************************************************************************)
\* read_line: the next line with its newline, or an empty string at end of file.
ReadLine ==
    /\ pc = "read"
    /\ IF stdin # <<>>
       THEN line' = Head(stdin) \o <<"\n">> /\ stdin' = Tail(stdin)
       ELSE line' = <<>> /\ stdin' = stdin
    /\ pc' = "parse"
    /\ UNCHANGED <<lexer, program, keep_going, variables, printed, input, calls>>

\* The match on the result r of parser.parse(): the Ok arm goes on to the
\* runner, the Err arm prints the error and goes back to reading.
ParserReturned(r) ==
    /\ lexer' = r.lx
    /\ program' = [kind |-> r.kind, val |-> r.val, err |-> r.err]
    /\ pc' = CASE r.kind = "ok" -> "run"
               [] r.kind = "err" -> "read"
               [] r.kind = "panic" -> "panicked"
    /\ printed' = IF r.kind = "err" THEN Printed("error", "", Zero, r.err) ELSE printed
    /\ UNCHANGED <<stdin, line, keep_going, variables, input, calls>>

\* Parser::new(&line).parse()
ParseLine ==
    /\ pc = "parse"
    /\ ParserReturned(parse(line))

\* keep_going = runner.run(&program), then the test of the while loop.
RunnerReturned(r) ==
    /\ variables' = r.variables
    /\ printed' = r.printed
    /\ keep_going' = IF r.panic THEN keep_going ELSE r.ret
    /\ pc' = IF r.panic THEN "panicked" ELSE IF r.ret THEN "read" ELSE "exited"
    /\ UNCHANGED <<stdin, line, lexer, program, input, calls>>

\* Runner::run on a command statement.
RunCommand ==
    /\ pc = "run"
    /\ program.val.prog = "Command"
    /\ RunnerReturned(run_command(program.val, variables))

\* Runner::run on an assignment statement.
RunAssignment ==
    /\ pc = "run"
    /\ program.val.prog = "Assignment"
    /\ RunnerReturned(run_assignment(program.val, variables))

\* Runner::run on a bare expression.
RunExpression ==
    /\ pc = "run"
    /\ program.val.prog = "Expr"
    /\ RunnerReturned(run_expression(program.val.expression, variables))

Next == ReadLine \/ ParseLine \/ RunCommand \/ RunAssignment \/ RunExpression

(***************************************************************************)
(* A lexer exercised on its own: any sequence of get_next and peek_next.   *)
(***************************************************************************)
\* The call op on the lexer gave g: the call is recorded and the lexer moves.
LexerReturned(op, g) ==
    /\ calls' = Append(calls, [op |-> op, res |-> g.res, before |-> lexer])
    /\ lexer' = g.lx
    /\ pc' = IF g.res.kind = "panic" THEN "panicked" ELSE pc
    /\ UNCHANGED <<stdin, line, program, keep_going, variables, printed, input>>

GetNext ==
    /\ pc = "lexing"
    /\ Len(calls) < MaxCalls
    /\ LexerReturned("get_next", get_next(lexer))

PeekNext ==
    /\ pc = "lexing"
    /\ Len(calls) < MaxCalls
    /\ LexerReturned("peek_next", peek_next(lexer))

NextLexer == GetNext \/ PeekNext

(***************************************************************************)
(* The inputs.                                                             *)
(***************************************************************************)
\* The concatenation of a sequence of texts.
RECURSIVE Concat(_)
Concat(ss) == IF ss = <<>> THEN <<>> ELSE Head(ss) \o Concat(Tail(ss))

\* The sequences over S of length lo to hi.
SeqsOf(S, lo, hi) == UNION {[1..n -> S] : n \in lo..hi}

\* Texts for a lexer: every short text over the characters that decide a
\* literal, an operator, a name, whitespace and an unrecognized character,
\* and the texts of the documented examples.
LexerChars == {"1", ".", "e", "x", "+", " "}
LexerSamples ==
    { <<"1", "3", ".", "2", "5", "e", "2", "e", "2", "4">>,
      <<"1", "3", ".", "2", "5", "e", "2">>,
      <<".", "1", "3", "2", "5", "e", "2">>,
      <<"1", "e", "9", "9", "9">>,
      <<"h", "e", "l", "p">>,
      <<"a", "r", "c", "s", "i", "n", "(", "e", ")">>,
      <<"2", "?", "1">>,
      <<"1", NBSP, "2">>,
      <<NBSP>>,
      <<"1", ".", NBSP>> }
LexerTexts == SeqsOf(LexerChars, 0, MaxTextLen) \cup LexerSamples

\* Lines for the parser. A chain is operands joined by binary operators.
ChainOperands == {"2", "x"}
ChainOperators == {Plus, Minus, Times, DividedBy, Power}
Chains ==
    UNION { { [i \in 1..(2 * n + 1) |-> IF i % 2 = 1 THEN a[(i + 1) \div 2] ELSE o[i \div 2]] :
              a \in [1..(n + 1) -> ChainOperands], o \in [1..n -> ChainOperators] } :
            n \in 1..MaxOps }

\* Lines made of a few pieces: keywords, operands, operators, a space.
Pieces ==
    { <<"q", "u", "i", "t">>, <<"x">>, <<"=">>, <<"2">>, <<"+">>, <<"(">>, <<")">>,
      <<",">>, <<"m", "a", "x">>, <<" ">> }
PieceLines == {Concat(ps) : ps \in SeqsOf(Pieces, 0, MaxPieces)}

\* Lines 'a/b(c)': two operands and a parenthesised expression.
QuotientOperands == {<<"6">>, <<"2">>, <<"x">>, <<"1", ".", "5">>}
QuotientInners == {<<"1", "+", "2">>, <<"x">>, <<"2", "^", "3">>, <<"2", "(", "3", ")">>}
QuotientLines ==
    {a \o <<"/">> \o b \o <<"(">> \o c \o <<")">> :
        a \in QuotientOperands, b \in QuotientOperands, c \in QuotientInners}

\* Lines 'f(a, ...)': every function on zero to MaxArgs arguments.
CallArguments == {<<"1">>, <<"-", "2">>, <<".", "5">>}
RECURSIVE Commas(_)
Commas(args) ==
    IF args = <<>> THEN <<>>
    ELSE IF Len(args) = 1 THEN Head(args)
    ELSE Head(args) \o <<",">> \o Commas(Tail(args))
CallLines ==
    {func_spellings[f] \o <<"(">> \o Commas(args) \o <<")">> :
        f \in 1..Len(func_spellings), args \in SeqsOf(CallArguments, 0, MaxArgs)}

\* The examples of the documentation and of the tests.
ExampleLines ==
    { <<"6", "/", "2", "(", "1", "+", "2", ")">>,
      <<"4", "*", "1", "0", "^", "3", "+", "3", "*", "1", "0", "^", "2", "+",
        "2", "*", "1", "0", "^", "1", "+", "1", "*", "1", "0", "^", "0">>,
      <<"2", "^", "3", "^", "2">>,
      <<"-", "2", " ", "/", " ", "0">>,
      <<"l", "n", "(", "0", ")">>,
      <<"s", "q", "r", "t", "(", "-", "1", ")">>,
      <<"p", "o", "w", "(", "0", ",", "-", "1", ")">>,
      <<"m", "a", "x", "(", "-", "1", ",", "-", "1", "0", ",", "-", "2", ")">>,
      <<"m", "i", "n", "(", "-", "1", ",", "0", ",", "2", ")">>,
      <<"1", "e", "9", "9", "9">>,
      <<"c", "o", "s", "(", "1", "e", "9", "9", "9", ")">>,
      <<"h", "e", "l", "p">>,
      <<"x", "=", "x", "+", "1", "0">>,
      <<"2", "?">>,
      <<"1", NBSP, "+", "2">> }

\* Lines with more than one failing step: a division by zero and an unbound
\* variable on either side of an operator and of a comma, and a failing
\* argument in a call with the wrong number of arguments.
FailureLines ==
    { <<"c", "o", "s", "(", "1", "/", "0", ",", "2", ")">>,
      <<"c", "o", "s", "(", "2", ",", "1", "/", "0", ")">>,
      <<"1", "/", "0", "+", "y">>,
      <<"y", "+", "1", "/", "0">>,
      <<"(", "y", ")", "*", "-", "(", "1", "/", "0", ")">>,
      <<"m", "a", "x", "(", "y", ",", "1", "/", "0", ")">>,
      <<"m", "a", "x", "(", "1", "/", "0", ",", "y", ")">>,
      <<"m", "a", "x", "(", "1", ",", "y", ",", "1", "/", "0", ")">> }

\* Lines with signs: a sign before a power, a sign after '^', two signs.
Signs == {Plus, Minus}
SignOperands == {<<"1">>, <<"2">>, <<"x">>, <<"0", ".", "5">>}
SignLines ==
    UNION { { <<s>> \o a \o <<"^">> \o b, a \o <<"^", s>> \o b, <<s, t>> \o a } :
            s \in Signs, t \in Signs, a \in SignOperands, b \in SignOperands }

\* Lines with a juxtaposed right operand followed by '^': 'ax^c' and
\* 'asqrt(x)^c' (a variable or function token), 'a(b)^c' (a parenthesis),
\* and 'a*(b)^c' with the operator written.
JuxtaposedLefts == {<<"a">>, <<"2">>, <<"(", "a", ")">>}
JuxtaposedInners == {<<"b">>, <<"3">>, <<"b", "+", "1">>}
JuxtaposedExponents == {<<"2">>, <<"c">>}
JuxtaposedLines ==
    UNION { { a \o <<"x", "^">> \o c,
              a \o <<"s", "q", "r", "t", "(">> \o b \o <<")", "^">> \o c,
              a \o <<"(">> \o b \o <<")", "^">> \o c,
              a \o <<"*", "(">> \o b \o <<")", "^">> \o c } :
            a \in JuxtaposedLefts, b \in JuxtaposedInners, c \in JuxtaposedExponents }

\* Lines with an operator where a term is expected: at the start of the
\* line, after a binary operator and after a left parenthesis.
StrayOperators == {Plus, Minus, Times, DividedBy, Power, Comma, Assignment, RightParen}
StrayOperatorLines ==
    UNION { { <<o, "2">>, <<"2", "*", o, "2">>, <<"(", o, "2", ")">> } :
            o \in StrayOperators }

\* Lines written as expressions, statements and commands.
ExpressionLines ==
    Chains \cup QuotientLines \cup CallLines \cup ExampleLines
        \cup FailureLines \cup SignLines \cup JuxtaposedLines \cup StrayOperatorLines

ParserLines == PieceLines \cup ExpressionLines

\* Lines for the loop: assignments, expressions, commands, and lines that
\* fail in the lexer, in the parser and in the evaluator.
LoopLines ==
    { <<"x", "=", "5">>,
      <<"x", "=", "x", "+", "1", "0">>,
      <<"y", "=", "x">>,
      <<"x", "=", "1", "/", "0">>,
      <<"x", "=", "1", "e", "9", "9", "9">>,
      <<"x", "=", "-", "x">>,
      <<"x">>,
      <<"x", "+", "1", "0">>,
      <<"2", "x">>,
      <<"c", "o", "s", "(", "x", ")">>,
      <<"-", "2", " ", "/", " ", "0">>,
      <<"h", "e", "l", "p">>,
      <<"q", "u", "i", "t">>,
      <<"q", "u", "i", "t", " ", "1">>,
      <<"x", "=">>,
      <<"1", ".">>,
      <<"2", "?">>,
      <<>>,
      <<" ", "x">>,
      <<NBSP, "x">> }

(***************************************************************************)
(* Specifications.                                                         *)
(***************************************************************************)
\* main at its first read_line, the lines of the standard input being stdin.
Started(lines) ==
    /\ stdin = lines
    /\ pc = "read"
    /\ line = <<>>
    /\ lexer = Lexer(<<>>)
    /\ program = NoProgram
    /\ keep_going = TRUE
    /\ variables = NoVariables
    /\ printed = NothingPrinted
    /\ input = <<>>
    /\ calls = <<>>

\* The loop on every short sequence of lines.
Init == \E lines \in SeqsOf(LoopLines, 1, MaxLines) : Started(lines)
Spec == Init /\ [][Next]_vars

\* The loop on one line given to the parser.
InitParser == \E l \in ParserLines : Started(<<l>>)
SpecParser == InitParser /\ [][Next]_vars

\* The loop on one line written as an expression, a statement or a command.
InitExpressions == \E l \in ExpressionLines : Started(<<l>>)
SpecExpressions == InitExpressions /\ [][Next]_vars

\* A lexer created on a text, before its first call.
InitLexer ==
    /\ input \in LexerTexts
    /\ lexer = Lexer(input)
    /\ calls = <<>>
    /\ pc = "lexing"
    /\ stdin = <<>>
    /\ line = <<>>
    /\ program = NoProgram
    /\ keep_going = TRUE
    /\ variables = NoVariables
    /\ printed = NothingPrinted
SpecLexer == InitLexer /\ [][NextLexer]_vars

(***************************************************************************)
(* Properties.                                                             *)
(***************************************************************************)
\* The program of the state is the result of parsing the line of the state.
Parsed == pc \in {"run", "read", "exited"} /\ program.kind # "none"
\* The line of the state was parsed into a program and the program was run.
Ran == pc \in {"read", "exited"} /\ program.kind = "ok"
\* The text of a line as read_line delivers it.
AsRead(l) == l \o <<"\n">>

\* C1: Expression::evaluate returns an error or a finite value, never Ok with
\* an infinite or NaN value: whatever the loop prints as the value of an
\* expression or of an assignment is finite.
C1_EvaluateIsFinite ==
    Ran /\ printed.kind \in {"value", "assignment"} => is_finite(printed.val)

\* C2: running an assignment 'v = e' evaluates e against the environment before
\* the run and binds v to the result if there is one, leaving the environment
\* unchanged otherwise; nothing else changes the environment; and 'x = x + 10'
\* fails with an undefined-variable error when x is unbound and succeeds with
\* old x + 10 when x is bound.
C2_Step ==
    /\ RunAssignment =>
          LET r == evaluate(program.val.expression, variables)
              v == program.val.variable.var
          IN  /\ r.kind = "ok" =>
                    /\ DOMAIN variables' = DOMAIN variables \cup {v}
                    /\ variables'[v] = r.val
                    /\ \A ch \in DOMAIN variables \ {v} : variables'[ch] = variables[ch]
                    /\ printed' = Printed("assignment", v, r.val, NoError)
              /\ r.kind # "ok" => variables' = variables
    /\ ~RunAssignment => variables' = variables
    /\ RunAssignment /\ line = AsRead(<<"x", "=", "x", "+", "1", "0">>) =>
          IF "x" \in DOMAIN variables
          THEN /\ printed' = Printed("assignment", "x", Add(variables["x"], Num(10)), NoError)
               /\ variables'["x"] = Add(variables["x"], Num(10))
          ELSE /\ printed'.kind = "error"
               /\ printed'.err.what = "variable is undefined"
               /\ printed'.err.name = "x"
C2_AssignmentWritesAfterEvaluation == [][C2_Step]_vars

\* The results of get_next from lx on, up to the first end of input or failure.
RECURSIVE TokensFrom(_)
TokensFrom(lx) ==
    LET g == get_next(lx)
    IN  IF g.res.kind # "ok" \/ g.res.tok.t = "Eol" THEN <<g.res>>
        ELSE <<g.res>> \o TokensFrom(g.lx)

\* The tokens of a text before its end of input; <<>> when the lexer fails on it.
TokensOf(text) ==
    LET rs == TokensFrom(Lexer(text))
    IN  IF rs[Len(rs)].kind # "ok" THEN <<>>
        ELSE [i \in 1..(Len(rs) - 1) |-> rs[i].tok]

\* The expression the parser builds for a text, on its own.
TreeOf(text) == parse(text).val.expression

\* C3: implicit multiplication by a parenthesised term has the precedence of
\* '*' and '/' and groups left to right with them: 'a/b(c)' is parsed as
\* (a/b)*(c), and '6/2(1+2)' evaluates to 9.
C3_ImplicitMultiplicationGroupsLeft ==
    /\ \A a \in QuotientOperands, b \in QuotientOperands, c \in QuotientInners :
          Parsed /\ line = AsRead(a \o <<"/">> \o b \o <<"(">> \o c \o <<")">>) =>
              /\ program.kind = "ok"
              /\ program.val =
                    Expr(BinaryExpr(Times,
                                    BinaryExpr(DividedBy, TreeOf(a), TreeOf(b)),
                                    ParenExpr(TreeOf(c))))
    /\ Ran /\ line = AsRead(<<"6", "/", "2", "(", "1", "+", "2", ")">>) =>
          printed = Printed("value", "", Num(9), NoError)

\* A state where '6/2(1+2)' was parsed as (6/2)*(1+2) and evaluated to 9.
C3_Witness ==
    /\ Ran
    /\ line = AsRead(<<"6", "/", "2", "(", "1", "+", "2", ")">>)
    /\ program.val.expression.op = Times
    /\ program.val.expression.left.op = DividedBy
    /\ program.val.expression.right.node = "Paren"
    /\ printed.val = Num(9)

\* The precedence level of a binary operator.
Level(op) == IF op \in {Plus, Minus} THEN 1 ELSE IF op \in {Times, DividedBy} THEN 2 ELSE 3

IsOperand(tok) == tok.t \in {"Literal", "Variable"}
OperandTree(tok) == IF tok.t = "Literal" THEN LiteralExpr(tok.val) ELSE VariableExpr(tok.name)

\* Operands joined by the binary operators + - * / ^.
IsOperandChain(toks) ==
    /\ Len(toks) >= 3
    /\ Len(toks) % 2 = 1
    /\ \A i \in 1..Len(toks) :
          IF i % 2 = 1 THEN IsOperand(toks[i])
          ELSE toks[i].t = "Operator" /\ toks[i].name \in ChainOperators

\* The grouping of the chain toks[lo..hi]: the chain is split at the last
\* operator among those of its lowest level.
RECURSIVE Grouping(_, _, _)
Grouping(toks, lo, hi) ==
    IF lo = hi THEN OperandTree(toks[lo])
    ELSE LET ops == {i \in lo..hi : (i - lo) % 2 = 1}
             lowest == CHOOSE l \in 1..3 :
                          /\ \E i \in ops : Level(toks[i].name) = l
                          /\ \A i \in ops : Level(toks[i].name) >= l
             at == CHOOSE i \in ops :
                      /\ Level(toks[i].name) = lowest
                      /\ \A j \in ops : Level(toks[j].name) = lowest => j <= i
         IN  BinaryExpr(toks[at].name, Grouping(toks, lo, at - 1), Grouping(toks, at + 1, hi))

PowerChain == <<"2", "^", "3", "^", "2">>
DecimalChain ==
    <<"4", "*", "1", "0", "^", "3", "+", "3", "*", "1", "0", "^", "2", "+",
      "2", "*", "1", "0", "^", "1", "+", "1", "*", "1", "0", "^", "0">>

\* C4: in a chain of operands joined by + - * / ^, '^' groups tighter than
\* '*' and '/', these tighter than '+' and '-', and operators of one level
\* group left to right, '^' included; '2^3^2' is 64 and the decimal chain 4321.
C4_PrecedenceAndLeftAssociativity ==
    /\ Parsed /\ IsOperandChain(TokensOf(line)) =>
          /\ program.kind = "ok"
          /\ program.val = Expr(Grouping(TokensOf(line), 1, Len(TokensOf(line))))
    /\ Ran /\ line = AsRead(PowerChain) => printed = Printed("value", "", Num(64), NoError)
    /\ Ran /\ line = AsRead(DecimalChain) => printed = Printed("value", "", Num(4321), NoError)

\* A state where '2^3^2' was parsed as (2^3)^2 and evaluated to 64.
C4_Witness ==
    /\ Ran
    /\ line = AsRead(PowerChain)
    /\ program.val.expression.left.node = "Binary"
    /\ program.val.expression.right.node = "Literal"
    /\ printed.val = Num(64)

(***************************************************************************)
(* Properties of the lexer.                                                *)
(***************************************************************************)
LastCall == calls[Len(calls)]
IsGetNext(call) == call.op = "get_next"
\* The calls of get_next among the calls made.
GetNextCalls == SelectSeq(calls, IsGetNext)

TwoExponents == <<"1", "3", ".", "2", "5", "e", "2", "e", "2", "4">>

C6_PeekLeavesLexerUnchanged ==
    \A i \in 1..Len(calls) :
        calls[i].op = "peek_next" /\ calls[i].res.kind # "panic" =>
            IF i = Len(calls)
            THEN /\ lexer = calls[i].before
                 /\ lexer.current_token = calls[i].before.current_token
            ELSE /\ calls[i + 1].before = calls[i].before
                 /\ calls[i + 1].res = calls[i].res

\* A state where a failed peek and a peek of a token were each followed by a
\* get_next from a lexer whose current token is not the one peeked.
C6_Witness ==
    /\ Len(calls) >= 2
    /\ \E i \in 1..(Len(calls) - 1) :
          /\ calls[i].op = "peek_next"
          /\ calls[i + 1].op = "get_next"
          /\ calls[i].res.kind = "ok"
          /\ calls[i].res.tok # calls[i].before.current_token
          /\ calls[i].before.text # <<>>

(***************************************************************************)
(* Properties of the parser and of the evaluator.                          *)
(***************************************************************************)
\* C7: parse returns a program only if the whole input was consumed: when a
\* token other than end-of-input is left after a complete command, assignment
\* or expression, parse fails with a parse error.
C7_WholeInputConsumed ==
    /\ Parsed /\ program.kind = "ok" =>
          /\ lexer.current_token = Eol
          /\ lexer.text = <<>>
    /\ Parsed /\ lexer.current_token # Eol /\ program.kind # "panic" =>
          /\ program.kind = "err"
          /\ program.val = NoTree
          /\ program.err.stage \in {"Parse error", "Syntax error"}
    /\ \A l \in {<<"2", " ", "2">>, <<"q", "u", "i", "t", " ", "2">>,
                 <<"x", "=", "2", ")">>, <<"2", "=", "2">>} :
          Parsed /\ line = AsRead(l) =>
              /\ program.kind = "err"
              /\ program.err.stage = "Parse error"
              /\ program.err.what = "extra characters at the end of line."

\* A state where parse failed on a token left after a complete expression.
C7_Witness ==
    /\ Parsed
    /\ line = AsRead(<<"2", " ", "2">>)
    /\ program.kind = "err"
    /\ lexer.current_token = Literal(Num(2))

\* C8: the statement is classified by the first two tokens: a command when
\* the first is a command keyword (the second is then end-of-input), an
\* assignment when the first is a variable and the second '=', a bare
\* expression otherwise; the assignment's target is the first token's letter
\* and its right-hand side the expression parsed from the third token on.
C8_ClassifiedByFirstTwoTokens ==
    Parsed /\ program.kind = "ok" =>
        LET first == get_next(Lexer(line))
            second == get_next(first.lx)
            third == get_next(second.lx)
            isCommand == first.res.tok.t = "Command"
            isAssignment == /\ first.res.tok.t = "Variable"
                            /\ second.res.kind = "ok"
                            /\ second.res.tok = Operator(Assignment)
        IN  /\ first.res.kind = "ok"
            /\ program.val.prog = "Command" <=> isCommand
            /\ program.val.prog = "Command" =>
                  /\ second.res = LexOk(Eol)
                  /\ program.val.command = first.res.tok.name
            /\ program.val.prog = "Assignment" <=> isAssignment
            /\ program.val.prog = "Assignment" =>
                  /\ program.val.variable = VariableExpr(first.res.tok.name)
                  /\ third.res.kind = "ok"
                  /\ parse_expression(ParseOk(NoTree, third.lx)).kind = "ok"
                  /\ program.val.expression = parse_expression(ParseOk(NoTree, third.lx)).val
            /\ program.val.prog = "Expr" <=> ~isCommand /\ ~isAssignment
            /\ program.val.prog = "Expr" =>
                  program.val.expression = parse_expression(ParseOk(NoTree, first.lx)).val

\* A state where 'x = 2' was parsed into an assignment to x.
C8_Witness ==
    /\ Parsed
    /\ line = AsRead(<<"x", "=", "2">>)
    /\ program.kind = "ok"
    /\ program.val = AssignmentStmt(VariableExpr("x"), LiteralExpr(Num(2)))

\* The argument counts a function accepts.
AcceptsCount(func, n) ==
    IF func \in {"max", "min"} THEN n >= 2
    ELSE IF func = "pow" THEN n = 2
    ELSE n = 1

IsArityError(p) ==
    /\ p.kind = "error"
    /\ p.err.what \in {"single argument required", "arguments required",
                       "at least arguments required"}

\* The values of the arguments of a call, all of which evaluate successfully.
ArgumentValues(call) == [i \in 1..Len(call.args) |-> evaluate(call.args[i], variables).val]
ArgumentsSucceed(call) ==
    \A i \in 1..Len(call.args) : evaluate(call.args[i], variables).kind = "ok"

\* C9: a call whose arguments all evaluate fails with an arity error unless
\* the argument count matches the function's policy (1, 2 for pow, at least 2
\* for max and min); the parser accepts any argument count, zero included;
\* max returns the largest and min the smallest of the argument values.
C9_ArityCheckedAtEvaluation ==
    /\ Parsed /\ Len(line) > 1 /\ Take(line, Len(line) - 1) \in CallLines =>
          /\ program.kind = "ok"
          /\ program.val.prog = "Expr"
          /\ program.val.expression.node = "Function"
    /\ Ran /\ program.val.prog = "Expr" /\ program.val.expression.node = "Function"
       /\ ArgumentsSucceed(program.val.expression) =>
          LET call == program.val.expression
              n == Len(call.args)
              values == ArgumentValues(call)
          IN  /\ IsArityError(printed) <=> ~AcceptsCount(call.func, n)
              /\ IsArityError(printed) =>
                    printed.err.name = call.func /\ printed.err.got = n
              /\ call.func = "max" /\ n >= 2 =>
                    /\ printed.kind = "value"
                    /\ \E i \in 1..n : values[i] = printed.val
                    /\ \A i \in 1..n : ~Lt(printed.val, values[i])
              /\ call.func = "min" /\ n >= 2 =>
                    /\ printed.kind = "value"
                    /\ \E i \in 1..n : values[i] = printed.val
                    /\ \A i \in 1..n : ~Lt(values[i], printed.val)

\* A state where a call of cos with two arguments failed with an arity error.
C9_Witness ==
    /\ Ran
    /\ program.val.prog = "Expr"
    /\ program.val.expression.node = "Function"
    /\ program.val.expression.func = "cos"
    /\ Len(program.val.expression.args) = 2
    /\ IsArityError(printed)

\* C10: a line that fails in lexing, parsing or evaluation only produces an
\* error message: the loop goes on to the next line with the environment
\* kept, no input line aborts the process, and the loop ends only when a
\* 'quit' command has been run.
C10_Step ==
    /\ pc' # "panicked"
    /\ ParseLine /\ program'.kind # "ok" =>
          /\ printed'.kind = "error"
          /\ pc' = "read"
          /\ variables' = variables
    /\ (RunAssignment \/ RunExpression) /\ printed'.kind = "error" =>
          /\ pc' = "read"
          /\ variables' = variables
    /\ pc' = "exited" <=> RunCommand /\ program.val.command = "quit"
C10_ErrorsAreNotFatal == [][C10_Step]_vars

(***************************************************************************)
(* Further properties of the lexer.                                        *)
(***************************************************************************)
\* The text without its leading whitespace characters, whatever their width.
RECURSIVE TrimStart(_)
TrimStart(text) ==
    IF text # <<>> /\ is_whitespace(Head(text)) THEN TrimStart(Tail(text)) ELSE text

\* The text is empty or holds only whitespace characters.
IsBlank(text) == \A i \in 1..Len(text) : is_whitespace(text[i])

\* The lexer as the i-th call left it.
AfterCall(i) == IF i = Len(calls) THEN lexer ELSE calls[i + 1].before

\* C11: whitespace of more than one byte is tolerated: get_next skips every
\* leading whitespace character, multi-byte ones included, and returns the
\* token that follows, as it does on the same text without that whitespace;
\* it never aborts.
C11_NonAsciiWhitespaceSkipped ==
    \A i \in 1..Len(calls) :
        IsGetNext(calls[i]) =>
            LET before == calls[i].before
                trimmed == get_next([text |-> TrimStart(before.text),
                                     current_token |-> before.current_token])
            IN  /\ calls[i].res.kind # "panic"
                /\ calls[i].res = trimmed.res
                /\ AfterCall(i) = trimmed.lx

\* C12: every Literal token the lexer returns carries a finite value; a
\* literal too large for the number format is rejected, never returned as a
\* Literal with an infinite value.
C12_LiteralsAreFinite ==
    \A i \in 1..Len(calls) :
        calls[i].res.kind = "ok" /\ calls[i].res.tok.t = "Literal" =>
            is_finite(calls[i].res.tok.val)

\* C13: end of input is absorbing: every get_next made on a text that is
\* empty or only whitespace returns the end-of-input token, leaves the
\* current token at end-of-input and the text empty or only whitespace, and
\* never fails.
C13_EndOfInputIsAbsorbing ==
    \A i \in 1..Len(calls) :
        IsGetNext(calls[i]) /\ IsBlank(calls[i].before.text) =>
            /\ calls[i].res = LexOk(Eol)
            /\ AfterCall(i).current_token = Eol
            /\ IsBlank(AfterCall(i).text)

(***************************************************************************)
(* Termination of the parser.                                              *)
(***************************************************************************)
\* The get_next calls from lx on, at most n of them, up to the first end of
\* input or failure: the result of each and the length of the text around it.
RECURSIVE LexSteps(_, _)
LexSteps(lx, n) ==
    IF n = 0 THEN <<>>
    ELSE LET g == get_next(lx)
             step == [res |-> g.res, before |-> Len(lx.text), after |-> Len(g.lx.text)]
         IN  IF g.res.kind # "ok" \/ g.res.tok.t = "Eol" THEN <<step>>
             ELSE <<step>> \o LexSteps(g.lx, n - 1)

\* The step returned a token other than end-of-input.
IsTokenStep(step) == step.res.kind = "ok" /\ step.res.tok.t # "Eol"

\* The number of Binary nodes of a tree (binary = TRUE) or of its other nodes.
RECURSIVE Nodes(_, _), NodesOfAll(_, _)
Nodes(e, binary) ==
    CASE e.node = "Paren" -> (IF binary THEN 0 ELSE 1) + Nodes(e.expr, binary)
      [] e.node = "Unary" -> (IF binary THEN 0 ELSE 1) + Nodes(e.expr, binary)
      [] e.node = "Binary" ->
            (IF binary THEN 1 ELSE 0) + Nodes(e.left, binary) + Nodes(e.right, binary)
      [] e.node = "Function" -> (IF binary THEN 0 ELSE 1) + NodesOfAll(e.args, binary)
      [] OTHER -> IF binary THEN 0 ELSE 1
NodesOfAll(es, binary) ==
    IF es = <<>> THEN 0 ELSE Nodes(Head(es), binary) + NodesOfAll(Tail(es), binary)

RECURSIVE Subexpressions(_)
Subexpressions(e) ==
    {e} \cup
    CASE e.node \in {"Paren", "Unary"} -> Subexpressions(e.expr)
      [] e.node = "Binary" -> Subexpressions(e.left) \cup Subexpressions(e.right)
      [] e.node = "Function" ->
            UNION {Subexpressions(e.args[i]) : i \in 1..Len(e.args)}
      [] OTHER -> {}

\* The evaluation of e against the environment of the state fails.
Fails(e) == evaluate(e, variables).kind # "ok"

DivisionByZero == <<"1", "/", "0">>

\* C15: the error of an evaluation is that of the first failing step, depth
\* first and left to right: a failure of the left operand is returned whatever
\* the right operand does, a failure of the right operand otherwise, and a
\* failure of the first failing argument of a call before its argument count
\* is looked at; 'cos(1/0, 2)' fails with the division error.
C15_FirstFailureInOrder ==
    /\ Ran /\ program.val.prog # "Command" =>
          \A s \in Subexpressions(program.val.expression) :
              LET r == evaluate(s, variables)
              IN  /\ s.node \in {"Paren", "Unary"} /\ Fails(s.expr) =>
                        r = evaluate(s.expr, variables)
                  /\ s.node = "Binary" /\ Fails(s.left) =>
                        r = evaluate(s.left, variables)
                  /\ s.node = "Binary" /\ ~Fails(s.left) /\ Fails(s.right) =>
                        r = evaluate(s.right, variables)
                  /\ s.node = "Function" =>
                        \A i \in 1..Len(s.args) :
                            /\ Fails(s.args[i])
                            /\ \A j \in 1..(i - 1) : ~Fails(s.args[j])
                            => r = evaluate(s.args[i], variables)
    /\ Ran /\ program.val.prog = "Expr" /\ printed.kind = "error" =>
          printed.err = evaluate(program.val.expression, variables).err
    /\ Ran /\ line = AsRead(<<"c", "o", "s", "(">> \o DivisionByZero \o <<",", "2", ")">>) =>
          /\ printed.kind = "error"
          /\ printed.err.what = "arithmetic overflow during division"
    /\ Ran /\ line = AsRead(DivisionByZero \o <<"+", "y">>) =>
          printed.err.what = "arithmetic overflow during division"
    /\ Ran /\ line = AsRead(<<"y", "+">> \o DivisionByZero) =>
          printed.err.what = "variable is undefined"

\* A state where 'cos(1/0, 2)' was run: the first argument fails and the
\* argument count is wrong as well.
C15_Witness ==
    /\ Ran
    /\ line = AsRead(<<"c", "o", "s", "(">> \o DivisionByZero \o <<",", "2", ")">>)
    /\ program.val.expression.node = "Function"
    /\ Len(program.val.expression.args) = 2
    /\ Fails(program.val.expression.args[1])
    /\ printed.kind = "error"

\* The tree of an operand written as a: a variable or a literal.
Leaf(a) == IF a = <<"x">> THEN VariableExpr("x") ELSE LiteralExpr(ParseF64(a))

\* C16: a unary '+' or '-' binds to the single term after it, tighter than
\* '^': '-a^b' is Binary(^, Unary(-, a), b), 'a^-b' is Binary(^, a,
\* Unary(-, b)), '--a' is Unary(-, Unary(-, a)), and no Unary node has a
\* Binary node as its operand; '-1^0.5' fails evaluation and '2^-2' is 0.25.
C16_SignBindsToOneTerm ==
    /\ Parsed /\ program.kind = "ok" /\ program.val.prog # "Command" =>
          \A e \in Subexpressions(program.val.expression) :
              e.node = "Unary" => e.op \in Signs /\ e.expr.node # "Binary"
    /\ \A s \in Signs, t \in Signs, a \in SignOperands, b \in SignOperands :
          /\ Parsed /\ line = AsRead(<<s>> \o a \o <<"^">> \o b) =>
                /\ program.kind = "ok"
                /\ program.val.expression =
                       BinaryExpr(Power, UnaryExpr(s, Leaf(a)), Leaf(b))
          /\ Parsed /\ line = AsRead(a \o <<"^", s>> \o b) =>
                /\ program.kind = "ok"
                /\ program.val.expression =
                       BinaryExpr(Power, Leaf(a), UnaryExpr(s, Leaf(b)))
          /\ Parsed /\ line = AsRead(<<s, t>> \o a) =>
                /\ program.kind = "ok"
                /\ program.val.expression = UnaryExpr(s, UnaryExpr(t, Leaf(a)))
    /\ Ran /\ line = AsRead(<<"-", "1", "^", "0", ".", "5">>) =>
          /\ printed.kind = "error"
          /\ printed.err.what = "result of exponentiation is undefined"
    /\ Ran /\ line = AsRead(<<"2", "^", "-", "2">>) =>
          /\ printed.kind = "value"
          /\ printed.val = Div(One, Num(4))
          /\ Mul(printed.val, Num(4)) = One

\* A state where '-1^0.5' was run: the power of minus one failed.
C16_Witness ==
    /\ Ran
    /\ line = AsRead(<<"-", "1", "^", "0", ".", "5">>)
    /\ program.val.expression =
           BinaryExpr(Power, UnaryExpr(Minus, LiteralExpr(One)),
                      LiteralExpr(Div(One, Num(2))))
    /\ printed.kind = "error"

\* C17: in every tree a successful parse returns, the operator of a Unary
\* node is '+' or '-' and that of a Binary node one of '+', '-', '*', '/',
\* '^'; so the evaluation of a parsed tree never reaches the panic branches
\* of UnaryExpression::evaluate and BinaryExpression::evaluate.
C17_OperatorsOfParsedTrees ==
    /\ Parsed /\ program.kind = "ok" /\ program.val.prog # "Command" =>
          /\ \A e \in Subexpressions(program.val.expression) :
                /\ e.node = "Unary" => e.op \in {Plus, Minus}
                /\ e.node = "Binary" => e.op \in {Plus, Minus, Times, DividedBy, Power}
          /\ evaluate(program.val.expression, variables).kind # "panic"
    /\ pc = "panicked" => program.kind = "panic"

\* A state where '-2^2' was run: a Unary and a Binary node were evaluated.
C17_Witness ==
    /\ Ran
    /\ line = AsRead(<<"-", "2", "^", "2">>)
    /\ program.val.expression.node = "Binary"
    /\ program.val.expression.left.node = "Unary"
    /\ printed.kind = "value"
    /\ printed.val = Num(4)

\* The tree of an expression written as text.
Inner(b) == parse_expression(lexer_get_next(ParseOk(NoTree, Lexer(b)))).val

=============================================================================
